---- MODULE Spec2Model ----
(***************************************************************************)
(* Model of kimchi's linearization layer (src/kimchi/src/linearization.rs):*)
(* the exponent registry `Alphas` as it is used by constraints_expr, the   *)
(* composition of the joint constraint expression, the evaluated-column    *)
(* selector linearization_columns and the driver expr_linearization.       *)
(*                                                                         *)
(* Alphas, the gate families' combined_constraints, LookupInfo and         *)
(* Expr::linearize / to_polish live in modules that are not part of the    *)
(* sources at hand; they are modelled from the specification, adjusted to  *)
(* what their callers in linearization.rs show (noted at each definition). *)
(*                                                                         *)
(* Further down: witness initialisation over a layout of cells             *)
(* (src/kimchi/src/circuits/witness/mod.rs) and the Keccak witness driver  *)
(* (src/optimism/src/keccak/witness.rs), each with its own specification.  *)
(***************************************************************************)
EXTENDS Integers, Sequences, FiniteSets, TLC

VARIABLES
    entry,            \* which entry point drives this behaviour: "alphas" |
                      \* "expr_linearization" | "witness" | "keccak"
    pc,               \* position in the running function, "panicked" after a panic
    feature_flags,    \* Option<&FeatureFlags>: <<>> is None, <<f>> is Some(f)
    generic,          \* the `generic` argument
    debug_assertions, \* cfg!(debug_assertions): fixed by the build
    powers_of_alpha,  \* Alphas: [next_power, mapping]
    calls,            \* registrations that returned, in order: <<ty, n>>
    last,             \* the last Alphas call made: [op, ty, n, before, ok, val]
    expr,             \* the joint expression: the sequence of summands added so far
    evaluated_cols,   \* HashSet<Column> returned by linearization_columns
    linearization,    \* <<>> until expr_linearization returns, then <<Linearization>>
    more_constraints, \* usize: constraints the lookup module's list holds beyond the known ones
    run,              \* 1 in the first call of expr_linearization, 2 in a repeated call
    first_run,        \* <<>>, or <<outcome>> of the first call once a second one has begun
    wit,              \* the witness under initialisation and its layout (witness/mod.rs)
    env               \* the KeccakEnv and the preimage it hashes (keccak/witness.rs)

vars == <<entry, pc, feature_flags, generic, debug_assertions, powers_of_alpha,
          calls, last, expr, evaluated_cols, linearization,
          more_constraints, run, first_run, wit, env>>

\* what the registry driver and one call of expr_linearization leave alone
otherVars == <<more_constraints, run, first_run, wit, env>>

----------------------------------------------------------------------------
(* Bounds of the registry driver. *)

\* largest count a driver registration or request uses
MaxPowers == 5

(* Program constants. *)

\* wires::COLUMNS
COLUMNS == 15
\* VarbaseMul::CONSTRAINTS, the largest constraint count of a gate family
VarbaseMul_CONSTRAINTS == 21
\* permutation::CONSTRAINTS
permutation_CONSTRAINTS == 3
\* 2^16: a count fits u32 iff its upper half, count \div 2^16, is below 2^16
U32Half == 65536

----------------------------------------------------------------------------
(* Option<T>. *)

None == <<>>
Some(x) == <<x>>
IsSome(o) == o # <<>>
Unwrap(o) == o[1]

----------------------------------------------------------------------------
(* ArgumentType and the Alphas registry. *)

Gate(kind) == <<"Gate", kind>>
Permutation == <<"Permutation", "">>
Lookup == <<"Lookup", "">>

GateKinds == {"Zero", "Generic"}
ArgumentType == {Gate(k) : k \in GateKinds} \cup {Permutation, Lookup}

\* mapping[ty] is <<>> while ty is unregistered, else <<first exponent, count>>
AlphasDefault == [next_power |-> 0, mapping |-> [ty \in ArgumentType |-> <<>>]]

IsRegistered(alphas, ty) == alphas.mapping[ty] # <<>>

\* Alphas::register: the next `powers` exponents go to ty; a second
\* registration of ty panics.
RegisterNoAdvance(alphas, ty, powers) ==
    IF IsRegistered(alphas, ty)
    THEN [ok |-> FALSE, alphas |-> alphas]
    ELSE [ok |-> TRUE,
          alphas |-> [alphas EXCEPT !.mapping[ty] = <<alphas.next_power, powers>>]]

RegisterOverwrites(alphas, ty, powers) ==
    [ok |-> TRUE,
     alphas |-> [next_power |-> alphas.next_power + powers,
                 mapping |-> [alphas.mapping EXCEPT ![ty] = <<alphas.next_power, powers>>]]]

Register(alphas, ty, powers) ==
    IF IsRegistered(alphas, ty)
    THEN [ok |-> FALSE, alphas |-> alphas]
    ELSE [ok |-> TRUE,
          alphas |-> [next_power |-> alphas.next_power + powers,
                      mapping |-> [alphas.mapping EXCEPT ![ty] = <<alphas.next_power, powers>>]]]

\* All gates share the range registered under Gate(Zero)
\* ("The gate type argument can just be the zero gate").
Resolve(ty) == IF ty[1] = "Gate" THEN Gate("Zero") ELSE ty

\* the iterator over the exponents lo, lo+1, ..., lo+n-1: the half-open range <<lo, lo+n>>
Range(lo, n) == <<lo, lo + n>>

\* Iterator::next on a fresh range
NextOf(range) == IF range[1] < range[2] THEN Some(range[1]) ELSE None

\* Alphas::get_exponents: panics when ty is unregistered or the count does
\* not match. For the shared gate range the registered count is the maximum
\* over the gate families, and a gate asks for its own, smaller, count.
GetExponentsWholeRange(alphas, ty, num) ==
    LET key == Resolve(ty) IN
    IF ~IsRegistered(alphas, key) THEN [ok |-> FALSE, val |-> <<>>]
    ELSE IF num > alphas.mapping[key][2] THEN [ok |-> FALSE, val |-> <<>>]
    ELSE [ok |-> TRUE, val |-> Range(alphas.mapping[key][1], alphas.mapping[key][2])]

GetExponents(alphas, ty, num) ==
    LET key == Resolve(ty) IN
    IF ~IsRegistered(alphas, key) THEN [ok |-> FALSE, val |-> <<>>]
    ELSE LET lo == alphas.mapping[key][1]
             stored == alphas.mapping[key][2]
         IN IF key = Gate("Zero")
            THEN IF num > stored THEN [ok |-> FALSE, val |-> <<>>]
                 ELSE [ok |-> TRUE, val |-> Range(lo, num)]
            ELSE IF num # stored THEN [ok |-> FALSE, val |-> <<>>]
                 ELSE [ok |-> TRUE, val |-> Range(lo, num)]

NoCall == [op |-> "none", ty |-> <<"", "">>, n |-> 0, before |-> AlphasDefault,
           ok |-> TRUE, val |-> <<>>]

----------------------------------------------------------------------------
(* Feature configuration. *)

LookupPatterns ==
    [xor : BOOLEAN, chacha_final : BOOLEAN, lookup_gate : BOOLEAN,
     range_check_gate : BOOLEAN, foreign_field_mul_gate : BOOLEAN]

\* LookupPatterns::default(): every pattern disabled
LookupPatternsDefault ==
    [xor |-> FALSE, chacha_final |-> FALSE, lookup_gate |-> FALSE,
     range_check_gate |-> FALSE, foreign_field_mul_gate |-> FALSE]

LookupFeatures ==
    [patterns : LookupPatterns, joint_lookup_used : BOOLEAN, uses_runtime_tables : BOOLEAN]

FeatureFlags ==
    [chacha : BOOLEAN, range_check : BOOLEAN, foreign_field_add : BOOLEAN,
     foreign_field_mul : BOOLEAN, xor : BOOLEAN, lookup_features : LookupFeatures]

\* the LookupFeatures literal of both None branches
AllLookupFeatures ==
    [patterns |-> [xor |-> TRUE, chacha_final |-> TRUE, lookup_gate |-> TRUE,
                   range_check_gate |-> TRUE, foreign_field_mul_gate |-> TRUE],
     joint_lookup_used |-> TRUE,
     uses_runtime_tables |-> TRUE]

\* lookups per row of each pattern; LookupInfo takes the maximum over the
\* enabled ones
PatternMaxLookupsPerRow ==
    [xor |-> 4, chacha_final |-> 4, lookup_gate |-> 3,
     range_check_gate |-> 4, foreign_field_mul_gate |-> 2]

SetMax(S) == IF S = {} THEN 0 ELSE CHOOSE m \in S : \A x \in S : x <= m

\* LookupInfo::create
LookupInfoCreate(features) ==
    [features |-> features,
     max_per_row |-> SetMax({PatternMaxLookupsPerRow[p] :
                               p \in {q \in DOMAIN PatternMaxLookupsPerRow : features.patterns[q]}})]

\* lookup::constraints::constraints(&configuration, false).len(): the
\* aggregation equation and its two boundary checks, one slot per sorted
\* column pair, and one more constraint with runtime tables
LookupConstraintsLen(lookup_info) ==
    3 + 4 + (IF lookup_info.features.uses_runtime_tables THEN 1 ELSE 0)

\* a usize is kept as <<upper, lower>> with value upper * 2^16 + lower and
\* lower < 2^16, so that counts beyond u32::MAX can be written down
Usize(n) == <<n \div U32Half, n % U32Half>>

UsizeAdd(a, b) ==
    LET lower == a[2] + b[2] IN <<a[1] + b[1] + lower \div U32Half, lower % U32Half>>

\* constraints.len(), for the list lookup::constraints::constraints returns
ConstraintsLen(lookup_info) ==
    UsizeAdd(Usize(LookupConstraintsLen(lookup_info)), more_constraints)

\* a cast `as u32`, which keeps the low 32 bits
U32Wrapping(n) == Some((n[1] % U32Half) * U32Half + n[2])

\* u32::try_from(usize)
U32TryFrom(n) == IF n[1] < U32Half THEN Some(n[1] * U32Half + n[2]) ELSE None

----------------------------------------------------------------------------
(* The symbolic expression: a sum, kept as the sequence of its summands.  *)
(* A summand is the weighted constraints of one family or an EnabledIf    *)
(* node around such a sum.                                                 *)

Constraints(family, alphas, info) ==
    [node |-> "Constraints", tag |-> family, alphas |-> alphas, info |-> info, body |-> <<>>]

EnabledIf(flag, body) ==
    [node |-> "EnabledIf", tag |-> flag, alphas |-> <<>>, info |-> <<>>, body |-> body]

\* Argument::combined_constraints(&powers_of_alpha) of a gate family: the
\* family's constraints weighted by the exponents of the gate range
CombinedConstraints(alphas, family) ==
    LET key == Resolve(Gate(family))
        view == IF IsRegistered(alphas, key)
                THEN GetExponents(alphas, Gate(family), alphas.mapping[key][2])
                ELSE [ok |-> FALSE, val |-> <<>>]
    IN Constraints(family, view.val, <<>>)

GatesRegistered(alphas) == IsRegistered(alphas, Gate("Zero"))

\* Expr::combine_constraints(alphas, constraints) of the lookup argument
CombineLookup(alphas, lookup_info) == Constraints("Lookup", alphas, <<lookup_info>>)

\* the `if let Some(feature_flags) ... else EnabledIf` block of an optional family
OptionalAlwaysWrapped(ff, enabled, flag, body) == <<EnabledIf(flag, body)>>

OptionalNeverPruned(ff, enabled, flag, body) ==
    IF IsSome(ff) THEN body ELSE <<EnabledIf(flag, body)>>

Optional(ff, enabled, flag, body) ==
    IF IsSome(ff)
    THEN IF enabled THEN body ELSE <<>>
    ELSE <<EnabledIf(flag, body)>>

----------------------------------------------------------------------------
(* Columns and linearization_columns. *)

Witness(i) == <<"Witness", i, "">>
Coefficient(i) == <<"Coefficient", i, "">>
Z == <<"Z", 0, "">>
LookupSorted(i) == <<"LookupSorted", i, "">>
LookupAggreg == <<"LookupAggreg", 0, "">>
LookupTable == <<"LookupTable", 0, "">>
LookupRuntimeTable == <<"LookupRuntimeTable", 0, "">>
Index(kind) == <<"Index", 0, kind>>

\* the FeatureFlags literal linearization_columns uses for None
AllFeatureFlags ==
    [chacha |-> TRUE, range_check |-> TRUE, foreign_field_add |-> TRUE,
     foreign_field_mul |-> TRUE, xor |-> TRUE, lookup_features |-> AllLookupFeatures]

\* the lookup polynomials of a LookupInfo
LookupColumns(lookup_info) ==
    {LookupSorted(i) : i \in 0..lookup_info.max_per_row}
        \cup {LookupAggreg, LookupTable}
        \cup (IF lookup_info.features.uses_runtime_tables THEN {LookupRuntimeTable} ELSE {})

linearization_columns_short(ff) ==
    {Witness(i) : i \in 0..(COLUMNS - 2)} \cup {Coefficient(i) : i \in 0..(COLUMNS - 1)}
        \cup {Index("Poseidon"), Index("Generic")}

linearization_columns(ff) ==
    LET flags == IF IsSome(ff) THEN Unwrap(ff) ELSE AllFeatureFlags
        lookup_info == IF flags.lookup_features.patterns = LookupPatternsDefault
                       THEN Some(LookupInfoCreate(flags.lookup_features))
                       ELSE None
    IN {Witness(i) : i \in 0..(COLUMNS - 1)}
           \cup {Coefficient(i) : i \in 0..(COLUMNS - 1)}
           \cup (IF IsSome(lookup_info) THEN LookupColumns(Unwrap(lookup_info)) ELSE {})
           \cup {Z, Index("Poseidon"), Index("Generic")}

----------------------------------------------------------------------------
(* The registry driver: any sequence of register and get_exponents calls  *)
(* on an initially empty Alphas.                                           *)

Call(op, ty, n, r) ==
    [op |-> op, ty |-> ty, n |-> n, before |-> powers_of_alpha, ok |-> r.ok,
     val |-> IF op = "get_exponents" THEN r.val ELSE <<>>]

pipelineVars == <<feature_flags, generic, debug_assertions, expr, evaluated_cols, linearization>>

AlphasRegister(ty, n) ==
    /\ entry = "alphas" /\ pc = "idle"
    /\ LET r == Register(powers_of_alpha, ty, n) IN
         /\ powers_of_alpha' = r.alphas
         /\ calls' = IF r.ok THEN Append(calls, <<ty, n>>) ELSE calls
         /\ last' = Call("register", ty, n, r)
         /\ pc' = IF r.ok THEN "idle" ELSE "panicked"
    /\ UNCHANGED <<entry, otherVars, pipelineVars>>

AlphasGetExponents(ty, n) ==
    /\ entry = "alphas" /\ pc = "idle"
    /\ LET r == GetExponents(powers_of_alpha, ty, n) IN
         /\ last' = Call("get_exponents", ty, n, r)
         /\ pc' = IF r.ok THEN "idle" ELSE "panicked"
    /\ UNCHANGED <<entry, otherVars, powers_of_alpha, calls, pipelineVars>>

----------------------------------------------------------------------------
(* expr_linearization(feature_flags, generic), statement by statement:    *)
(* linearization_columns, then constraints_expr, then linearize.          *)

Step(from, to) == entry = "expr_linearization" /\ pc = from /\ pc' = to

\* let evaluated_cols = linearization_columns::<F>(feature_flags);
EvaluatedCols ==
    /\ Step("start", "register_gates")
    /\ evaluated_cols' = linearization_columns(feature_flags)
    /\ UNCHANGED <<entry, otherVars, feature_flags, generic, debug_assertions, powers_of_alpha,
                   calls, last, expr, linearization>>

\* a register call of constraints_expr on the registry `alphas`, going to
\* `to` when it returns
RegisterStepFresh(from, to, alphas, ty, n) ==
    /\ entry = "expr_linearization" /\ pc = from
    /\ LET r == Register(AlphasDefault, ty, n) IN
         /\ powers_of_alpha' = r.alphas
         /\ calls' = IF r.ok THEN Append(calls, <<ty, n>>) ELSE calls
         /\ last' = [Call("register", ty, n, r) EXCEPT !.before = AlphasDefault]
         /\ pc' = IF r.ok THEN to ELSE "panicked"

RegisterStep(from, to, alphas, ty, n) ==
    /\ entry = "expr_linearization" /\ pc = from
    /\ LET r == Register(alphas, ty, n) IN
         /\ powers_of_alpha' = r.alphas
         /\ calls' = IF r.ok THEN Append(calls, <<ty, n>>) ELSE calls
         /\ last' = [Call("register", ty, n, r) EXCEPT !.before = alphas]
         /\ pc' = IF r.ok THEN to ELSE "panicked"

\* let mut powers_of_alpha = Alphas::<F>::default();
\* powers_of_alpha.register(ArgumentType::Gate(GateType::Zero), VarbaseMul::CONSTRAINTS)
RegisterGatesGenericFirst ==
    /\ RegisterStep("register_gates", "gates",
                    Register(AlphasDefault, Gate("Generic"), 1).alphas,
                    Gate("Zero"), VarbaseMul_CONSTRAINTS)
    /\ UNCHANGED <<entry, otherVars, pipelineVars>>

\* the registration made on whatever registry an earlier call left behind
RegisterGatesOnStale ==
    /\ RegisterStep("register_gates", "gates", powers_of_alpha,
                    Gate("Zero"), VarbaseMul_CONSTRAINTS)
    /\ UNCHANGED <<entry, otherVars, pipelineVars>>

RegisterGates ==
    /\ RegisterStep("register_gates", "gates", AlphasDefault,
                    Gate("Zero"), VarbaseMul_CONSTRAINTS)
    /\ UNCHANGED <<entry, otherVars, pipelineVars>>

\* a statement `let mut expr = summands` (acc is empty) or `expr += summands`
\* (acc is expr), panicking when a gate family cannot get its exponents
AddStep(from, to, acc, summands) ==
    /\ entry = "expr_linearization" /\ pc = from
    /\ IF GatesRegistered(powers_of_alpha)
       THEN pc' = to /\ expr' = acc \o summands
       ELSE pc' = "panicked" /\ expr' = expr
    /\ UNCHANGED <<entry, otherVars, feature_flags, generic, debug_assertions, powers_of_alpha,
                   calls, last, evaluated_cols, linearization>>

Gates(families) == [i \in 1..Len(families) |-> CombinedConstraints(powers_of_alpha, families[i])]

\* Poseidon, VarbaseMul, CompleteAdd, EndosclMul, EndomulScalar
MandatoryGates ==
    AddStep("gates", "chacha", <<>>,
            Gates(<<"Poseidon", "VarbaseMul", "CompleteAdd", "EndosclMul", "EndomulScalar">>))

Flag(name) == IF IsSome(feature_flags) THEN Unwrap(feature_flags)[name] ELSE FALSE

ChaChaStep ==
    AddStep("chacha", "range_check", expr,
            Optional(feature_flags, Flag("chacha"), "ChaCha",
                     Gates(<<"ChaCha0", "ChaCha1", "ChaCha2", "ChaChaFinal">>)))

RangeCheckStep ==
    AddStep("range_check", "foreign_field_add", expr,
            Optional(feature_flags, Flag("range_check"), "RangeCheck", Gates(<<"RangeCheck">>)))

ForeignFieldAddStep ==
    AddStep("foreign_field_add", "foreign_field_mul", expr,
            Optional(feature_flags, Flag("foreign_field_add"), "ForeignFieldAdd",
                     Gates(<<"ForeignFieldAdd">>)))

ForeignFieldMulStep ==
    AddStep("foreign_field_mul", "xor", expr,
            Optional(feature_flags, Flag("foreign_field_mul"), "ForeignFieldMul",
                     Gates(<<"ForeignFieldMul">>)))

XorStep ==
    AddStep("xor", "generic", expr,
            Optional(feature_flags, Flag("xor"), "Xor", Gates(<<"Xor16">>)))

\* if generic { expr += generic::Generic::combined_constraints(..) }
GenericStep ==
    AddStep("generic", "permutation", expr, IF generic THEN Gates(<<"Generic">>) ELSE <<>>)

\* powers_of_alpha.register(ArgumentType::Permutation, permutation::CONSTRAINTS)
RegisterPermutationAsGate ==
    /\ RegisterStep("permutation", "lookup", powers_of_alpha,
                    Gate("Zero"), permutation_CONSTRAINTS)
    /\ UNCHANGED <<entry, otherVars, pipelineVars>>

RegisterPermutation ==
    /\ RegisterStep("permutation", "lookup", powers_of_alpha,
                    Permutation, permutation_CONSTRAINTS)
    /\ UNCHANGED <<entry, otherVars, pipelineVars>>

\* the LookupInfo of the lookup block: from the given flags, or with
\* everything enabled when there are none
LookupConfigurationAll(ff) == LookupInfoCreate(AllLookupFeatures)

LookupConfiguration(ff) ==
    IF IsSome(ff)
    THEN LookupInfoCreate(Unwrap(ff).lookup_features)
    ELSE LookupInfoCreate(AllLookupFeatures)

\* expr += combined, where combined is the weighted sum itself (Some) or
\* EnabledIf(LookupTables, sum) (None)
LookupSummandBare(ff, combined) == <<combined>>

LookupSummand(ff, combined) ==
    IF IsSome(ff) THEN <<combined>> ELSE <<EnabledIf("LookupTables", <<combined>>)>>

\* the lookup block of constraints_expr
LookupStep ==
    /\ entry = "expr_linearization" /\ pc = "lookup"
    /\ LET lookup_info == LookupConfiguration(feature_flags)
           constraints_len == U32TryFrom(ConstraintsLen(lookup_info))
       IN IF ~IsSome(constraints_len)
          THEN pc' = "panicked" /\ UNCHANGED <<powers_of_alpha, calls, last, expr>>
          ELSE LET r == Register(powers_of_alpha, Lookup, Unwrap(constraints_len))
                   alphas == GetExponents(r.alphas, Lookup, Unwrap(constraints_len))
               IN IF ~r.ok
                  THEN /\ pc' = "panicked"
                       /\ last' = Call("register", Lookup, Unwrap(constraints_len), r)
                       /\ UNCHANGED <<powers_of_alpha, calls, expr>>
                  ELSE /\ powers_of_alpha' = r.alphas
                       /\ calls' = Append(calls, <<Lookup, Unwrap(constraints_len)>>)
                       /\ last' = [Call("get_exponents", Lookup, Unwrap(constraints_len), alphas)
                                     EXCEPT !.before = r.alphas]
                       /\ IF alphas.ok
                          THEN /\ pc' = "generic_alpha"
                               /\ expr' = expr \o LookupSummand(feature_flags,
                                                     CombineLookup(alphas.val, lookup_info))
                          ELSE pc' = "panicked" /\ expr' = expr
    /\ UNCHANGED <<entry, otherVars, feature_flags, generic, debug_assertions, evaluated_cols, linearization>>

\* if cfg!(debug_assertions) { assert_eq!(get_exponents(Gate(Generic), 1).next(), Some(0)) }
\* and the return of (expr, powers_of_alpha)
GenericAlphaCheck ==
    /\ entry = "expr_linearization" /\ pc = "generic_alpha"
    /\ IF debug_assertions
       THEN LET generic_alphas == GetExponents(powers_of_alpha, Gate("Generic"), 1) IN
              /\ last' = Call("get_exponents", Gate("Generic"), 1, generic_alphas)
              /\ pc' = IF generic_alphas.ok /\ NextOf(generic_alphas.val) = Some(0)
                       THEN "linearize" ELSE "panicked"
       ELSE pc' = "linearize" /\ last' = last
    /\ UNCHANGED <<entry, otherVars, pipelineVars, powers_of_alpha, calls>>

----------------------------------------------------------------------------
(* Expr::linearize and to_polish.                                          *)

\* the constraint leaves of an expression, each with the flag of the
\* EnabledIf node it sits under ("" at top level)
RECURSIVE Flatten(_, _)
Flatten(e, under) ==
    IF e = <<>> THEN <<>>
    ELSE LET h == Head(e) IN
         (IF h.node = "EnabledIf" THEN Flatten(h.body, h.tag)
          ELSE <<[leaf |-> h, under |-> under]>>) \o Flatten(Tail(e), under)

\* the selector polynomials a family's constraints are multiplied by
Selectors(family) ==
    CASE family = "Lookup" -> {}
      [] family = "RangeCheck" -> {Index("RangeCheck0"), Index("RangeCheck1")}
      [] OTHER -> {Index(family)}

\* the columns a family's constraints multiply with each other, which must
\* therefore be evaluated for the expression to be linear in the rest
Needs(leaf) ==
    {Witness(i) : i \in 0..(COLUMNS - 1)}
        \cup (IF leaf.tag = "Lookup"
              THEN LookupColumns(Unwrap(leaf.info))
              ELSE {Coefficient(i) : i \in 0..(COLUMNS - 1)})

\* Expr::linearize(evaluated): Err when a monomial is not linear in the
\* columns outside `evaluated`; else the constant term and one term per
\* unevaluated column
Linearize(e, evaluated) ==
    LET flat == Flatten(e, "")
        unevaluated == UNION {Selectors(flat[i].leaf.tag) : i \in DOMAIN flat} \ evaluated
        Constant(l) == Selectors(l.leaf.tag) \ evaluated = {}
    IN IF \E i \in DOMAIN flat : ~(Needs(flat[i].leaf) \subseteq evaluated)
       THEN [ok |-> FALSE, constant_term |-> <<>>, index_terms |-> <<>>]
       ELSE [ok |-> TRUE,
             constant_term |-> SelectSeq(flat, Constant),
             index_terms |-> [c \in unevaluated |->
                                LET Has(l) == c \in Selectors(l.leaf.tag)
                                IN SelectSeq(flat, Has)]]

\* Expr::to_polish: the postfix program of a sum of leaves
RECURSIVE ToPolishFrom(_, _)
ToPolishFrom(term, first) ==
    IF term = <<>> THEN <<>>
    ELSE LET l == Head(term)
             load == [tok |-> "Constraints", arg |-> l.leaf.tag, alphas |-> l.leaf.alphas]
             guarded == IF l.under = "" THEN <<load>>
                        ELSE <<[tok |-> "SkipIfNot", arg |-> l.under, alphas |-> <<>>], load>>
             add == IF first THEN <<>> ELSE <<[tok |-> "Add", arg |-> "", alphas |-> <<>>]>>
         IN guarded \o add \o ToPolishFrom(Tail(term), FALSE)

ToPolish(term) == [polish |-> TRUE, tokens |-> ToPolishFrom(term, TRUE)]

\* expr.linearize(evaluated_cols).unwrap().map(|e| e.to_polish())
LinearizeUnwrapOrDefault(e, evaluated) ==
    LET res == Linearize(e, evaluated) IN
    [ok |-> TRUE,
     val |-> [constant_term |-> IF res.ok THEN ToPolish(res.constant_term) ELSE res.constant_term,
              index_terms |-> [c \in DOMAIN res.index_terms |-> ToPolish(res.index_terms[c])]]]

LinearizeAndCompile(e, evaluated) ==
    LET res == Linearize(e, evaluated) IN
    IF ~res.ok THEN [ok |-> FALSE, val |-> <<>>]
    ELSE [ok |-> TRUE,
          val |-> [constant_term |-> ToPolish(res.constant_term),
                   index_terms |-> [c \in DOMAIN res.index_terms |-> ToPolish(res.index_terms[c])]]]

\* the last statements of expr_linearization
LinearizeStep ==
    /\ entry = "expr_linearization" /\ pc = "linearize"
    /\ LET res == LinearizeAndCompile(expr, evaluated_cols) IN
         IF res.ok
         THEN pc' = "done" /\ linearization' = <<res.val>>
         ELSE pc' = "panicked" /\ linearization' = linearization
    /\ UNCHANGED <<entry, otherVars, feature_flags, generic, debug_assertions, powers_of_alpha,
                   calls, last, expr, evaluated_cols>>

----------------------------------------------------------------------------
(* The specification. *)

\* one step of expr_linearization
ExprLinearization ==
    \/ EvaluatedCols
    \/ RegisterGates
    \/ MandatoryGates
    \/ ChaChaStep
    \/ RangeCheckStep
    \/ ForeignFieldAddStep
    \/ ForeignFieldMulStep
    \/ XorStep
    \/ GenericStep
    \/ RegisterPermutation
    \/ LookupStep
    \/ GenericAlphaCheck
    \/ LinearizeStep

\* wit and env outside the behaviours of their modules
NoWitness == <<>>
NoEnv == <<>>

\* the types the driver registers: the shared gate range, the permutation
\* and the lookup argument
DriverRegisters == {Gate("Zero"), Permutation, Lookup}

Init ==
    /\ entry \in {"alphas", "expr_linearization"}
    /\ pc = IF entry = "alphas" THEN "idle" ELSE "start"
    /\ feature_flags \in IF entry = "alphas" THEN {None}
                         ELSE {None} \cup {Some(f) : f \in FeatureFlags}
    /\ generic \in IF entry = "alphas" THEN {FALSE} ELSE BOOLEAN
    /\ debug_assertions \in IF entry = "alphas" THEN {FALSE} ELSE BOOLEAN
    /\ powers_of_alpha = AlphasDefault
    /\ calls = <<>>
    /\ last = NoCall
    /\ expr = <<>>
    /\ evaluated_cols = {}
    /\ linearization = <<>>
    /\ more_constraints = Usize(0)
    /\ run = 1
    /\ first_run = <<>>
    /\ wit = NoWitness
    /\ env = NoEnv

Next ==
    \/ \E ty \in DriverRegisters, n \in 0..MaxPowers : AlphasRegister(ty, n)
    \/ \E ty \in ArgumentType, n \in 0..(MaxPowers + 1) : AlphasGetExponents(ty, n)
    \/ ExprLinearization

Spec == Init /\ [][Next]_vars

----------------------------------------------------------------------------
(* Two calls of expr_linearization with the same arguments, one after the *)
(* other, over lookup constraint lists of any usize length.  The second   *)
(* call finds in powers_of_alpha, expr and evaluated_cols whatever the    *)
(* first one left there.                                                  *)

\* what a call hands back: the compiled linearization, the column set and
\* constraints_expr's pair, or nothing but the fact that it panicked
Outcome ==
    IF pc = "done"
    THEN [returned |-> TRUE, linearization |-> linearization,
          evaluated_cols |-> evaluated_cols, expr |-> expr,
          powers_of_alpha |-> powers_of_alpha]
    ELSE [returned |-> FALSE, linearization |-> <<>>, evaluated_cols |-> {},
          expr |-> <<>>, powers_of_alpha |-> AlphasDefault]

\* the caller calls expr_linearization(feature_flags, generic) again
Rerun ==
    /\ entry = "expr_linearization" /\ pc \in {"done", "panicked"} /\ run = 1
    /\ run' = 2
    /\ first_run' = <<Outcome>>
    /\ pc' = "start"
    /\ calls' = <<>>
    /\ last' = NoCall
    /\ linearization' = <<>>
    /\ UNCHANGED <<entry, feature_flags, generic, debug_assertions, powers_of_alpha,
                   expr, evaluated_cols, more_constraints, wit, env>>

\* the lookup pattern sets of the repeated calls: none, one and all
RunPatterns ==
    {LookupPatternsDefault, [LookupPatternsDefault EXCEPT !.xor = TRUE],
     AllLookupFeatures.patterns}

\* constraints beyond the known ones: none, 2^32 - 7 (a list of 2^32 or
\* 2^32 + 1 constraints, the least lengths u32 cannot hold) and 2^32
MoreConstraints == {Usize(0), <<U32Half - 1, U32Half - 7>>, <<U32Half, 0>>}

InitRuns ==
    /\ entry = "expr_linearization"
    /\ pc = "start"
    /\ feature_flags \in {None} \cup {Some(f) : f \in {g \in FeatureFlags :
                                          g.lookup_features.patterns \in RunPatterns}}
    /\ generic \in BOOLEAN
    /\ debug_assertions \in BOOLEAN
    /\ powers_of_alpha = AlphasDefault
    /\ calls = <<>>
    /\ last = NoCall
    /\ expr = <<>>
    /\ evaluated_cols = {}
    /\ linearization = <<>>
    /\ more_constraints \in MoreConstraints
    /\ run = 1
    /\ first_run = <<>>
    /\ wit = NoWitness
    /\ env = NoEnv

NextRuns == ExprLinearization \/ Rerun

SpecRuns == InitRuns /\ [][NextRuns]_vars

----------------------------------------------------------------------------
(* Witness initialisation (src/kimchi/src/circuits/witness/mod.rs):       *)
(* init_cell, init_row and init over a layout of witness cells.  The cell *)
(* types live in files that are not part of the sources at hand; their    *)
(* value() is modelled after what the tests of mod.rs assert about them.  *)

\* N, the number of witness columns
N == 3
\* the length of each witness column
WitnessRows == 3
\* the largest layout.len()
MaxRows == 2
\* the largest offset
MaxOffset == 1

\* a witness cell: what value() and length() need to know
Cell(kind, v, row, col, a, b, name) ==
    [kind |-> kind, v |-> v, row |-> row, col |-> col, a |-> a, b |-> b, name |-> name]

ConstantCell(v) == Cell("Constant", v, 0, 0, 0, 0, "")
CopyCell(row, col) == Cell("Copy", 0, row, col, 0, 0, "")
CopyBitsCell(row, col, start, end) == Cell("CopyBits", 0, row, col, start, end, "")
CopyShiftCell(row, col, shift) == Cell("CopyShift", 0, row, col, shift, 0, "")
VariableCell(name) == Cell("Variable", 0, 0, 0, 0, 0, name)
IndexCell(name, length) == Cell("Index", 0, 0, 0, length, 0, name)

\* WitnessCell::length: 1 unless the cell type overrides it
CellLength(cell) == IF cell.kind = "Index" THEN cell.a ELSE 1

\* witness[col][row] exists
InWitness(col, row) == col \in 0..(N - 1) /\ row \in 0..(WitnessRows - 1)

Panic(witness) == [ok |-> FALSE, witness |-> witness]
Return(witness) == [ok |-> TRUE, witness |-> witness]

\* WitnessCell::value(witness, variables, index): ok is FALSE when the
\* cell indexes out of the witness or of its variable
CellValue(cell, witness, variables, index) ==
    LET copied == witness[cell.col][cell.row] IN
    CASE cell.kind = "Constant" -> [ok |-> TRUE, val |-> cell.v]
      [] cell.kind = "Variable" -> [ok |-> TRUE, val |-> variables[cell.name]]
      [] cell.kind = "Index" ->
           IF index < Len(variables[cell.name])
           THEN [ok |-> TRUE, val |-> variables[cell.name][index + 1]]
           ELSE [ok |-> FALSE, val |-> 0]
      [] OTHER ->
           IF ~InWitness(cell.col, cell.row) THEN [ok |-> FALSE, val |-> 0]
           ELSE [ok |-> TRUE,
                 val |-> CASE cell.kind = "Copy" -> copied
                           [] cell.kind = "CopyBits" ->
                                (copied \div 2^cell.a) % 2^(cell.b - cell.a)
                           [] cell.kind = "CopyShift" -> copied * 2^cell.a]

\* witness[col + index][row + offset] = layout[row][col].value(witness, variables, index);
init_cell(witness, offset, row, col, index, layout, variables) ==
    LET value == CellValue(layout[row + 1][col + 1], witness, variables, index) IN
    IF ~value.ok \/ ~InWitness(col + index, row + offset)
    THEN Panic(witness)
    ELSE Return([witness EXCEPT ![col + index][row + offset] = value.val])

\* the two loops of init_row, from (col, index) on; layout[row][col] panics
\* when row `row` has no cell `col`
RECURSIVE init_row_from(_, _, _, _, _, _, _)
init_row_from(witness, offset, row, layout, variables, col, index) ==
    IF col >= Len(layout[1]) THEN Return(witness)
    ELSE IF col >= Len(layout[row + 1]) THEN Panic(witness)
    ELSE IF index >= CellLength(layout[row + 1][col + 1])
         THEN init_row_from(witness, offset, row, layout, variables, col + 1, 0)
         ELSE LET cell == init_cell(witness, offset, row, col, index, layout, variables) IN
              IF ~cell.ok THEN cell
              ELSE init_row_from(cell.witness, offset, row, layout, variables, col, index + 1)

\* for col in 0..layout[0].len() { for index in 0..layout[row][col].length() { init_cell } }
init_row(witness, offset, row, layout, variables) ==
    IF row >= Len(layout) THEN Panic(witness)
    ELSE init_row_from(witness, offset, row, layout, variables, 0, 0)


\* the loop of init from row `row` on, and from row `row` down
RECURSIVE init_from(_, _, _, _, _)
init_from(witness, offset, layout, variables, row) ==
    IF row >= Len(layout) THEN Return(witness)
    ELSE LET done == init_row(witness, offset, row, layout, variables) IN
         IF ~done.ok THEN done
         ELSE init_from(done.witness, offset, layout, variables, row + 1)

RECURSIVE init_down_from(_, _, _, _, _)
init_down_from(witness, offset, layout, variables, row) ==
    IF row < 0 THEN Return(witness)
    ELSE LET done == init_row(witness, offset, row, layout, variables) IN
         IF ~done.ok THEN done
         ELSE init_down_from(done.witness, offset, layout, variables, row - 1)

\* the rows visited from the last to the first
init_descending(witness, offset, layout, variables) ==
    init_down_from(witness, offset, layout, variables, Len(layout) - 1)

\* for row in 0..layout.len() { init_row(witness, offset, row, layout, variables); }
init(witness, offset, layout, variables) ==
    init_from(witness, offset, layout, variables, 0)

(* The inputs: layouts over T = F (named scalar variables) and over       *)
(* T = Vec<F> (named vectors, read by IndexCell), with rows of one, two   *)
(* and three cells.                                                       *)

ScalarVariables == [x |-> 7, y |-> 9]
VectorVariables == [u |-> <<6>>, v |-> <<3, 4>>]

\* rows for every T
Rows ==
    {<<ConstantCell(12), CopyCell(0, 0)>>,
     <<ConstantCell(5), CopyBitsCell(0, 0, 1, 3), CopyShiftCell(0, 1, 2)>>,
     <<CopyCell(1, 0)>>}

ScalarRows ==
    Rows \cup {<<VariableCell("x"), ConstantCell(3)>>,
               <<CopyCell(0, 1), VariableCell("y"), VariableCell("x")>>}

VectorRows ==
    Rows \cup {<<IndexCell("v", 2), ConstantCell(9)>>,
               <<ConstantCell(1), IndexCell("v", 2)>>}

Layouts(rows) == UNION {[1..n -> rows] : n \in 0..MaxRows}

\* [vec![fill; WitnessRows]; N]
Filled(fill) == [col \in 0..(N - 1) |-> [row \in 0..(WitnessRows - 1) |-> fill]]

\* the test's state: `witness` is initialised row by row, `witness2` by
\* init; `before` is `witness` as it was when the last init_row call began
InitWitness ==
    /\ entry = "witness"
    /\ \E vector \in BOOLEAN :
         \E layout \in Layouts(IF vector THEN VectorRows ELSE ScalarRows) :
           \E offset \in 0..MaxOffset, fill \in {0, 1} :
             /\ wit = [layout |-> layout, offset |-> offset,
                       variables |-> IF vector THEN VectorVariables ELSE ScalarVariables,
                       witness |-> Filled(fill), witness2 |-> Filled(fill),
                       before |-> Filled(fill), row |-> 0,
                       rows_ok |-> TRUE, init_ok |-> TRUE]
             /\ pc = IF layout = <<>> THEN "init" ELSE "init_row"
    /\ feature_flags = None
    /\ generic = FALSE
    /\ debug_assertions = FALSE
    /\ powers_of_alpha = AlphasDefault
    /\ calls = <<>>
    /\ last = NoCall
    /\ expr = <<>>
    /\ evaluated_cols = {}
    /\ linearization = <<>>
    /\ more_constraints = Usize(0)
    /\ run = 1
    /\ first_run = <<>>
    /\ env = NoEnv

linearizationVars ==
    <<entry, feature_flags, generic, debug_assertions, powers_of_alpha, calls, last,
      expr, evaluated_cols, linearization, more_constraints, run, first_run>>

\* init_row(&mut witness, offset, row, &layout, &variables) for the next row
InitRowCall ==
    /\ entry = "witness" /\ pc = "init_row"
    /\ LET done == init_row(wit.witness, wit.offset, wit.row, wit.layout, wit.variables) IN
         /\ wit' = [wit EXCEPT !.before = wit.witness, !.witness = done.witness,
                               !.row = wit.row + 1, !.rows_ok = done.ok]
         /\ pc' = IF done.ok /\ wit.row + 1 < Len(wit.layout) THEN "init_row" ELSE "init"
    /\ UNCHANGED <<linearizationVars, env>>

\* init(&mut witness2, offset, &layout, &variables)
InitCall ==
    /\ entry = "witness" /\ pc = "init"
    /\ LET done == init(wit.witness2, wit.offset, wit.layout, wit.variables) IN
         wit' = [wit EXCEPT !.witness2 = done.witness, !.init_ok = done.ok]
    /\ pc' = "done"
    /\ UNCHANGED <<linearizationVars, env>>

NextWitness == InitRowCall \/ InitCall

SpecWitness == InitWitness /\ [][NextWitness]_vars

----------------------------------------------------------------------------
(* The Keccak witness driver (src/optimism/src/keccak/witness.rs): hash,  *)
(* step and the sponge steps.  Keccak::num_blocks, pad and expand_state,  *)
(* update_step and null_state live outside the sources at hand and are    *)
(* modelled after their use here; the round permutation is abstracted,    *)
(* and the columns computed by Keccak::shift, collapse, reset, bytestring *)
(* and by Theta, PiRho, Chi and Iota are not tracked.                     *)

RATE_IN_BYTES == 136
CAPACITY_IN_BYTES == 64
DIM == 5
QUARTERS == 4
STATE_LEN == 100
ROUNDS == 24

\* bit k of a byte
Bit(byte, k) == (byte \div 2^k) % 2

\* a u64 in sparse notation is kept as its 16 hexadecimal digits, the least
\* significant first; the sums taken here never carry
ZeroQuarter == [k \in 1..16 |-> 0]
ZeroState == [i \in 1..STATE_LEN |-> ZeroQuarter]

\* old_state.iter().zip(new_state).map(|(x, y)| x + y)
SumStates(old_state, new_state) ==
    [i \in 1..STATE_LEN |-> [k \in 1..16 |-> old_state[i][k] + new_state[i][k]]]

\* Keccak::num_blocks: the padding always adds at least one byte
NumBlocks(bytelength) == bytelength \div RATE_IN_BYTES + 1

\* Keccak::pad: 0x01, zeros, and 0x80 added to the last byte, up to the
\* next multiple of RATE_IN_BYTES
Pad(preimage) ==
    LET length == RATE_IN_BYTES - (Len(preimage) % RATE_IN_BYTES) IN
    preimage \o [i \in 1..length |->
                   (IF i = 1 THEN 1 ELSE 0) + (IF i = length THEN 128 ELSE 0)]

\* Keccak::expand_state: quarter q of the little-endian word w, every bit
\* spread to its own hexadecimal digit
ExpandState(block) ==
    [i \in 1..STATE_LEN |->
       [k \in 1..16 |->
          Bit(block[8 * ((i - 1) \div QUARTERS) + 2 * ((i - 1) % QUARTERS)
                     + (k - 1) \div 8 + 1], (k - 1) % 8)]]

\* the output state_g of a round, abstracted: a state of bits again, here
\* the quarters moved on by one place with every digit reduced modulo 2
RoundOutput(state_a, round) ==
    [i \in 1..STATE_LEN |-> [k \in 1..16 |-> state_a[(i % STATE_LEN) + 1][k] % 2]]

\* pad_blocks: the padding bytes in five blocks of 12, 31, 31, 31 and 31
\* bytes; each block is a field element, kept as its base-256 digits, the
\* most significant first
pad_blocks(pad_bytelength) ==
    LET pad == [i \in 0..(RATE_IN_BYTES - 1) |->
                  (IF i = RATE_IN_BYTES - pad_bytelength THEN 1 ELSE 0)
                  + (IF i = RATE_IN_BYTES - 1 THEN 128 ELSE 0)]
    IN [b \in 0..4 |->
          IF b = 0 THEN [j \in 1..12 |-> pad[j - 1]]
          ELSE [j \in 1..31 |-> pad[12 + (b - 1) * 31 + j - 1]]]

(* KeccakStep and the columns of one row. *)

Absorb(absorb) == [kind |-> "Absorb", absorb |-> absorb, round |-> 0]
Squeeze == [kind |-> "Squeeze", absorb |-> "", round |-> 0]
Round(i) == [kind |-> "Round", absorb |-> "", round |-> i]

\* null_state: every column zero
NullState ==
    [FlagRound |-> 0, FlagAbsorb |-> 0, FlagSqueeze |-> 0, FlagRoot |-> 0,
     FlagPad |-> 0, FlagLength |-> 0,
     FlagsBytes |-> [i \in 0..(RATE_IN_BYTES - 1) |-> 0],
     StepCounter |-> 0,
     SpongeOldState |-> ZeroState, SpongeNewState |-> ZeroState,
     SpongeXorState |-> ZeroState,
     SpongeBytes |-> [i \in 1..(RATE_IN_BYTES + CAPACITY_IN_BYTES) |-> 0],
     PadSuffix |-> [b \in 0..4 |-> <<>>]]

set_flag_root(columns) == [columns EXCEPT !.FlagRoot = 1]

set_flag_pad(columns, pad_len) ==
    [columns EXCEPT !.FlagPad = 1, !.FlagLength = pad_len,
                    !.FlagsBytes = [i \in 0..(RATE_IN_BYTES - 1) |->
                                      IF i >= RATE_IN_BYTES - pad_len THEN 1 ELSE @[i]]]

\* every first absorb is taken for a last one, too
set_flag_absorb_first_pads(columns, absorb, pad_len) ==
    LET flagged == [columns EXCEPT !.FlagAbsorb = 1] IN
    CASE absorb \in {"First", "FirstAndLast"} -> set_flag_pad(set_flag_root(flagged), pad_len)
      [] absorb = "Last" -> set_flag_pad(flagged, pad_len)
      [] absorb = "Middle" -> flagged

set_flag_absorb(columns, absorb, pad_len) ==
    LET flagged == [columns EXCEPT !.FlagAbsorb = 1] IN
    CASE absorb = "First" -> set_flag_root(flagged)
      [] absorb = "Last" -> set_flag_pad(flagged, pad_len)
      [] absorb = "FirstAndLast" -> set_flag_pad(set_flag_root(flagged), pad_len)
      [] absorb = "Middle" -> flagged

\* self.padded[ini_idx..ini_idx + RATE_IN_BYTES] is within the padded preimage
BlockInRange(e) == (e.block_idx + 1) * RATE_IN_BYTES <= Len(e.padded)

\* run_absorb, for a block that is in range
run_absorb(e, absorb) ==
    LET ini_idx == e.block_idx * RATE_IN_BYTES
        block == [i \in 1..(RATE_IN_BYTES + CAPACITY_IN_BYTES) |->
                    IF i <= RATE_IN_BYTES THEN e.padded[ini_idx + i] ELSE 0]
        old_state == e.prev_block
        new_state == ExpandState(block)
        xor_state == SumStates(old_state, new_state)
    IN [e EXCEPT !.columns = [set_flag_absorb(e.columns, absorb, e.pad_len) EXCEPT
                                !.SpongeOldState = old_state,
                                !.SpongeNewState = new_state,
                                !.SpongeXorState = xor_state,
                                !.SpongeBytes = block,
                                !.PadSuffix = pad_blocks(e.pad_len)],
                 !.prev_block = xor_state,
                 !.block_idx = e.block_idx + 1]

\* run_squeeze
run_squeeze(e) ==
    [e EXCEPT !.columns = [e.columns EXCEPT !.FlagSqueeze = 1,
                                            !.SpongeOldState = e.prev_block]]

\* run_round, with set_flag_round
run_round(e, round) ==
    [e EXCEPT !.columns = [e.columns EXCEPT !.FlagRound = round],
              !.prev_block = RoundOutput(e.prev_block, round)]

\* update_step: an absorb is followed by the rounds 0 .. ROUNDS - 1, the
\* last round by the next absorb or, with nothing left, by the squeeze,
\* and the squeeze by nothing
update_step(e) ==
    LET current == Unwrap(e.keccak_step)
        left == e.blocks_left_to_absorb - 1
    IN [e EXCEPT
          !.keccak_step =
             CASE current.kind = "Absorb" -> Some(Round(0))
               [] current.kind = "Squeeze" -> None
               [] current.kind = "Round" /\ current.round < ROUNDS - 1 ->
                    Some(Round(current.round + 1))
               [] OTHER -> IF left = 0 THEN Some(Squeeze)
                           ELSE IF left = 1 THEN Some(Absorb("Last"))
                           ELSE Some(Absorb("Middle")),
          !.blocks_left_to_absorb =
             IF current.kind = "Round" /\ current.round = ROUNDS - 1 THEN left ELSE @,
          !.step_counter = @ + 1]

\* step, for a step that does not panic
step(e) ==
    LET current == Unwrap(e.keccak_step)
        reset == [e EXCEPT !.columns = NullState]
        ran == CASE current.kind = "Absorb" -> run_absorb(reset, current.absorb)
                 [] current.kind = "Squeeze" -> run_squeeze(reset)
                 [] current.kind = "Round" -> run_round(reset, current.round)
    IN update_step([ran EXCEPT !.columns.StepCounter = e.step_counter])

\* hash, up to its loop
hash(e, preimage) ==
    LET blocks_left_to_absorb == NumBlocks(Len(preimage))
        padded == Pad(preimage)
    IN [e EXCEPT !.blocks_left_to_absorb = blocks_left_to_absorb,
                 !.keccak_step = IF blocks_left_to_absorb = 1
                                 THEN Some(Absorb("FirstAndLast"))
                                 ELSE Some(Absorb("First")),
                 !.step_counter = 0,
                 !.prev_block = ZeroState,
                 !.padded = padded,
                 !.block_idx = 0,
                 !.pad_len = Len(padded) - Len(preimage)]

(* The inputs: preimages of zero, one, RATE_IN_BYTES - 1, RATE_IN_BYTES,  *)
(* 2 * RATE_IN_BYTES - 1 and 2 * RATE_IN_BYTES bytes, hashed by a new     *)
(* environment or by one that has hashed before.                          *)

PreimageLengths ==
    {0, 1, RATE_IN_BYTES - 1, RATE_IN_BYTES, 2 * RATE_IN_BYTES - 1, 2 * RATE_IN_BYTES}

Preimage(length, seed) == [i \in 1..length |-> (seed + 7 * i) % 256]

Preimages == {Preimage(length, seed) : length \in PreimageLengths, seed \in {0, 165}}

\* a new KeccakEnv
NewEnv ==
    [blocks_left_to_absorb |-> 0, keccak_step |-> None, step_counter |-> 0,
     prev_block |-> ZeroState, padded |-> <<>>, block_idx |-> 0, pad_len |-> 0,
     columns |-> NullState]

\* a KeccakEnv after the hash of one byte
UsedEnv ==
    [NewEnv EXCEPT !.step_counter = ROUNDS + 2, !.block_idx = 1,
                   !.pad_len = RATE_IN_BYTES - 1,
                   !.padded = Pad(<<1>>),
                   !.prev_block = [i \in 1..STATE_LEN |-> [k \in 1..16 |-> k % 2]],
                   !.columns = [NullState EXCEPT !.FlagSqueeze = 1,
                                                 !.StepCounter = ROUNDS + 1]]

InitKeccak ==
    /\ entry = "keccak"
    /\ pc = "idle"
    /\ \E preimage \in Preimages, e \in {NewEnv, UsedEnv} :
         env = [preimage |-> preimage, self |-> e]
    /\ feature_flags = None
    /\ generic = FALSE
    /\ debug_assertions = FALSE
    /\ powers_of_alpha = AlphasDefault
    /\ calls = <<>>
    /\ last = NoCall
    /\ expr = <<>>
    /\ evaluated_cols = {}
    /\ linearization = <<>>
    /\ more_constraints = Usize(0)
    /\ run = 1
    /\ first_run = <<>>
    /\ wit = NoWitness

\* env.hash(preimage) is called and reaches its loop
HashCall ==
    /\ entry = "keccak" /\ pc = "idle"
    /\ env' = [env EXCEPT !.self = hash(env.self, env.preimage)]
    /\ pc' = "step"
    /\ UNCHANGED <<linearizationVars, wit>>

\* while self.keccak_step.is_some() { self.step(); }
StepCall ==
    /\ entry = "keccak" /\ pc = "step"
    /\ IF ~IsSome(env.self.keccak_step)
       THEN pc' = "hashed" /\ env' = env
       ELSE IF Unwrap(env.self.keccak_step).kind = "Absorb" /\ ~BlockInRange(env.self)
            THEN pc' = "panicked" /\ env' = env
            ELSE pc' = "step" /\ env' = [env EXCEPT !.self = step(env.self)]
    /\ UNCHANGED <<linearizationVars, wit>>

NextKeccak == HashCall \/ StepCall

SpecKeccak == InitKeccak /\ [][NextKeccak]_vars

----------------------------------------------------------------------------
(* Properties. *)

Driver == entry = "alphas"
Pipeline == entry = "expr_linearization"

\* constraints_expr has returned (expr, powers_of_alpha)
ConstraintsExprReturned == Pipeline /\ pc \in {"linearize", "done"}

\* linearization_columns has returned
ColumnsReturned == Pipeline /\ pc # "start"

RECURSIVE SumCounts(_, _)
SumCounts(cs, k) == IF k = 0 THEN 0 ELSE SumCounts(cs, k - 1) + cs[k][2]

Disjoint(a, b) == a[2] <= b[1] \/ b[2] <= a[1]

\* C1: the ranges of the registrations made so far are pairwise disjoint
\* and, in registration order, tile [0, n1+...+nk) without a gap: the i-th
\* registered family holds [n1+...+n(i-1), n1+...+ni), the next free
\* exponent is the total, and nothing else is registered.
C1_RangesTile ==
    /\ \A i \in DOMAIN calls :
         powers_of_alpha.mapping[calls[i][1]] = <<SumCounts(calls, i - 1), calls[i][2]>>
    /\ \A i, j \in DOMAIN calls :
         i < j => Disjoint(<<SumCounts(calls, i - 1), SumCounts(calls, i)>>,
                           <<SumCounts(calls, j - 1), SumCounts(calls, j)>>)
    /\ powers_of_alpha.next_power = SumCounts(calls, Len(calls))
    /\ \A ty \in ArgumentType :
         IsRegistered(powers_of_alpha, ty) <=> \E i \in DOMAIN calls : calls[i][1] = ty

\* sizes 3 then 4 were registered and the span is 7
C1_Witness ==
    /\ Driver /\ Len(calls) = 2 /\ calls[1][2] = 3 /\ calls[2][2] = 4
    /\ powers_of_alpha.next_power = 7

MandatoryColumns ==
    {Witness(i) : i \in 0..(COLUMNS - 1)} \cup {Coefficient(i) : i \in 0..(COLUMNS - 1)}
        \cup {Z, Index("Generic"), Index("Poseidon")}

\* C2 (as claimed): with no flags, linearization_columns returns exactly the
\* mandatory columns and the lookup columns of the all-enabled configuration.
C2_NoneSelectsAllLookupColumns ==
    (ColumnsReturned /\ feature_flags = None)
        => evaluated_cols = MandatoryColumns \cup LookupColumns(LookupInfoCreate(AllLookupFeatures))

AnyLookupColumn(c) ==
    c[1] \in {"LookupSorted", "LookupAggreg", "LookupTable", "LookupRuntimeTable"}

\* C3 (as claimed): with Some(flags), the sorted, aggregation and table
\* columns are selected when the patterns differ from the all-disabled
\* default and no lookup column is selected when they equal it; the
\* runtime-table column is selected only with runtime tables in use.
C3_LookupColumnsIffPatterns ==
    (ColumnsReturned /\ IsSome(feature_flags)) =>
        LET features == Unwrap(feature_flags).lookup_features
            info == LookupInfoCreate(features)
        IN /\ features.patterns # LookupPatternsDefault
                => ({LookupSorted(i) : i \in 0..info.max_per_row}
                        \cup {LookupAggreg, LookupTable}) \subseteq evaluated_cols
           /\ features.patterns = LookupPatternsDefault
                => ~\E c \in evaluated_cols : AnyLookupColumn(c)
           /\ LookupRuntimeTable \in evaluated_cols
                => (features.patterns # LookupPatternsDefault /\ features.uses_runtime_tables)

\* C4: for every input, the returned set holds every witness and
\* coefficient column, Z, Index(Generic) and Index(Poseidon).
C4_MandatoryColumns == ColumnsReturned => MandatoryColumns \subseteq evaluated_cols

C4_Witness ==
    /\ ColumnsReturned /\ IsSome(feature_flags)
    /\ Unwrap(feature_flags).lookup_features.patterns.xor
    /\ Witness(COLUMNS - 1) \in evaluated_cols

\* the optional gate families: FeatureFlag, FeatureFlags field, constraint families
OptionalFamilies ==
    {<<"ChaCha", "chacha", {"ChaCha0", "ChaCha1", "ChaCha2", "ChaChaFinal"}>>,
     <<"RangeCheck", "range_check", {"RangeCheck"}>>,
     <<"ForeignFieldAdd", "foreign_field_add", {"ForeignFieldAdd"}>>,
     <<"ForeignFieldMul", "foreign_field_mul", {"ForeignFieldMul"}>>,
     <<"Xor", "xor", {"Xor16"}>>}

\* the EnabledIf(flag, _) nodes of the joint expression
Wrappers(flag) == {i \in DOMAIN expr : expr[i].node = "EnabledIf" /\ expr[i].tag = flag}

\* the occurrences of a family's constraints, at top level or under a node
Occurrences(family) ==
    LET flat == Flatten(expr, "") IN {i \in DOMAIN flat : flat[i].leaf.tag = family}

OccursOnceUnder(family, flag) ==
    LET flat == Flatten(expr, "") IN
    /\ Cardinality(Occurrences(family)) = 1
    /\ \A i \in Occurrences(family) : flat[i].under = flag

\* C5: for each optional gate family X, when constraints_expr returns:
\* Some(f) with f.X false leaves neither X's constraints nor an
\* EnabledIf(X, _) node in the expression; Some(f) with f.X true adds X's
\* constraints once, unwrapped; None adds them once, inside the one
\* EnabledIf(X, _) node.
C5_OptionalFamilies ==
    ConstraintsExprReturned =>
        \A X \in OptionalFamilies :
            IF IsSome(feature_flags)
            THEN /\ Wrappers(X[1]) = {}
                 /\ \A fam \in X[3] :
                      IF Unwrap(feature_flags)[X[2]]
                      THEN OccursOnceUnder(fam, "")
                      ELSE Occurrences(fam) = {}
            ELSE /\ Cardinality(Wrappers(X[1])) = 1
                 /\ \A fam \in X[3] : OccursOnceUnder(fam, X[1])
                 /\ \A i \in Wrappers(X[1]) :
                      {expr[i].body[k].tag : k \in DOMAIN expr[i].body} = X[3]

C5_Witness ==
    /\ ConstraintsExprReturned /\ IsSome(feature_flags)
    /\ Unwrap(feature_flags).chacha /\ ~Unwrap(feature_flags).xor
    /\ Occurrences("ChaChaFinal") # {} /\ Occurrences("Xor16") = {}

\* C6: when constraints_expr returns, the lookup argument is registered
\* with the constraint count of its configuration and weighted by exactly
\* that range. With Some(f) the configuration is the one of
\* f.lookup_features and the sum is a plain summand; with None it is the
\* all-enabled configuration, whose count no configuration exceeds, and
\* the sum sits in the one EnabledIf(LookupTables, _) node.
C6_LookupComposition ==
    ConstraintsExprReturned =>
        LET flat == Flatten(expr, "")
            info == LookupInfoCreate(IF IsSome(feature_flags)
                                     THEN Unwrap(feature_flags).lookup_features
                                     ELSE AllLookupFeatures)
            reg == powers_of_alpha.mapping[Lookup]
        IN /\ reg # <<>> /\ reg[2] = LookupConstraintsLen(info)
           /\ OccursOnceUnder("Lookup", IF IsSome(feature_flags) THEN "" ELSE "LookupTables")
           /\ \A i \in Occurrences("Lookup") :
                /\ flat[i].leaf.info = <<info>>
                /\ flat[i].leaf.alphas = <<reg[1], reg[1] + reg[2]>>
           /\ Cardinality(Wrappers("LookupTables")) = IF IsSome(feature_flags) THEN 0 ELSE 1
           /\ \A i \in Wrappers("LookupTables") : Len(expr[i].body) = 1
           /\ feature_flags = None =>
                \A f \in LookupFeatures : LookupConstraintsLen(LookupInfoCreate(f)) <= reg[2]

C6_Witness ==
    /\ ConstraintsExprReturned /\ IsSome(feature_flags)
    /\ ~Unwrap(feature_flags).lookup_features.uses_runtime_tables
    /\ Unwrap(feature_flags).lookup_features.patterns.lookup_gate
    /\ Occurrences("Lookup") # {}

\* the stored <<first exponent, count>> a request for ty looks at
Stored(call) == call.before.mapping[Resolve(call.ty)]

C8_RegisterTwiceIsFatal ==
    (last.op = "register" /\ IsRegistered(last.before, last.ty))
        => (pc = "panicked" /\ ~last.ok /\ powers_of_alpha = last.before)

C8_Witness ==
    /\ last.op = "register" /\ IsRegistered(last.before, last.ty)
    /\ Len(calls) = 2 /\ pc = "panicked"

\* C9: when constraints_expr returns, in any build, the registry yields
\* exponent 0 first for the generic gate, and the generic constraints, when
\* added, are weighted from exponent 0.
C9_GenericAtAlphaZero ==
    ConstraintsExprReturned =>
        LET generic_alphas == GetExponents(powers_of_alpha, Gate("Generic"), 1)
            flat == Flatten(expr, "")
        IN /\ generic_alphas.ok /\ NextOf(generic_alphas.val) = Some(0)
           /\ calls[1][1] = Gate("Zero")
           /\ generic => /\ Occurrences("Generic") # {}
                         /\ \A i \in Occurrences("Generic") : flat[i].leaf.alphas[1] = 0

C9_Witness ==
    /\ ConstraintsExprReturned /\ generic /\ debug_assertions
    /\ last.op = "get_exponents" /\ last.ty = Gate("Generic") /\ last.val = <<0, 1>>

\* C10: expr_linearization returns a linearization only if linearizing the
\* joint expression against the evaluated columns succeeded, and then every
\* term, the constant one and each column's, is a compiled program; when
\* linearizing fails it panics with nothing returned.
C10_LinearizeOrAbort ==
    /\ linearization # <<>> => (Pipeline /\ pc = "done")
    /\ (Pipeline /\ pc = "done") =>
         LET res == Linearize(expr, evaluated_cols)
             lin == Unwrap(linearization)
         IN /\ res.ok
            /\ lin.constant_term = ToPolish(res.constant_term)
            /\ DOMAIN lin.index_terms = DOMAIN res.index_terms
            /\ \A c \in DOMAIN lin.index_terms :
                 lin.index_terms[c] = ToPolish(res.index_terms[c])
    /\ (Pipeline /\ pc = "panicked" /\ last.ok) => ~Linearize(expr, evaluated_cols).ok

C10_Witness ==
    /\ Pipeline /\ pc = "panicked" /\ linearization = <<>>
    /\ ~Linearize(expr, evaluated_cols).ok

\* expr_linearization also returns for some inputs
C10_Returns == Pipeline /\ pc = "done" /\ DOMAIN Unwrap(linearization).index_terms # {}

----------------------------------------------------------------------------
\* constraints.len() of the lookup block of this call
LookupListLen == ConstraintsLen(LookupConfiguration(feature_flags))

FitsU32(n) == n[1] < U32Half

(* C11: when the lookup constraint list is longer than u32::MAX, in the   *)
(* Some branch and in the None branch, constraints_expr panics in the     *)
(* lookup block without registering ArgumentType::Lookup; whenever Lookup *)
(* is registered, the count registered is the length of the list itself,  *)
(* never a truncated or wrapped one.                                      *)
C11_NoTruncatedCount ==
    Pipeline =>
      /\ ~FitsU32(LookupListLen) =>
            /\ ~IsRegistered(powers_of_alpha, Lookup)
            /\ \A i \in DOMAIN calls : calls[i][1] # Lookup
            /\ pc \notin {"generic_alpha", "linearize", "done"}
      /\ \A i \in DOMAIN calls :
            calls[i][1] = Lookup => Usize(calls[i][2]) = LookupListLen

\* the call panicked in the lookup block, after the permutation was
\* registered, on a list of more than u32::MAX constraints
C11_Witness ==
    /\ Pipeline /\ pc = "panicked"
    /\ ~FitsU32(LookupListLen)
    /\ Len(calls) = 2 /\ calls[2][1] = Permutation

----------------------------------------------------------------------------
\* the lookup constraints of the joint expression, wrapped or not
LookupLeaves == LET IsLookup(l) == l.leaf.tag = "Lookup" IN SelectSeq(Flatten(expr, ""), IsLookup)

\* the constraints of the gate families in the joint expression
GateLeaves(e) == LET IsGate(l) == l.leaf.tag # "Lookup" IN SelectSeq(Flatten(e, ""), IsGate)

(* C15: whenever constraints_expr has put lookup constraints into the     *)
(* joint expression, bare or under EnabledIf(LookupTables), the set that  *)
(* linearization_columns returned for the same feature flags contains the *)
(* lookup columns these constraints refer to.                             *)
C15_LookupColumnsEvaluated ==
    ConstraintsExprReturned =>
      \A i \in DOMAIN LookupLeaves :
        LookupColumns(Unwrap(LookupLeaves[i].leaf.info)) \subseteq evaluated_cols

\* the registrations made so far are the first ones of: the gate range,
\* the permutation, the lookup argument; no registration was refused
RegistrationsInOrder ==
    Pipeline =>
      /\ Len(calls) <= 3
      /\ Len(calls) >= 1 => calls[1] = <<Gate("Zero"), VarbaseMul_CONSTRAINTS>>
      /\ Len(calls) >= 2 =>
            /\ calls[2] = <<Permutation, permutation_CONSTRAINTS>>
            /\ GetExponents(powers_of_alpha, Permutation, permutation_CONSTRAINTS).val
                 = Range(VarbaseMul_CONSTRAINTS, permutation_CONSTRAINTS)
      /\ Len(calls) = 3 => calls[3][1] = Lookup
      /\ ConstraintsExprReturned => Len(calls) = 3
      /\ ~(last.op = "register" /\ ~last.ok)

(* C16: constraints_expr registers exactly three times and in this order: *)
(* Gate(Zero) with VarbaseMul::CONSTRAINTS, Permutation with              *)
(* permutation::CONSTRAINTS, Lookup; no registration is refused as a      *)
(* double one; the permutation range starts at VarbaseMul::CONSTRAINTS    *)
(* for all flags; and every step that adds a gate family's constraints    *)
(* happens when the gate range is the only registration.                  *)
C16_RegistrationOrder ==
    /\ []RegistrationsInOrder
    /\ [][(Pipeline /\ GateLeaves(expr') # GateLeaves(expr))
            => (calls = <<<<Gate("Zero"), VarbaseMul_CONSTRAINTS>>>> /\ calls' = calls)]_vars

\* constraints_expr returned after adding the generic gate and an optional
\* family, with its three registrations made
C16_Witness ==
    /\ ConstraintsExprReturned /\ Len(calls) = 3
    /\ generic /\ IsSome(feature_flags) /\ Flag("chacha")
    /\ Len(GateLeaves(expr)) > 5

----------------------------------------------------------------------------
WitnessModule == entry = "witness"

(* C13: once the rows 0, 1, .. of the layout have been initialised by     *)
(* init_row in increasing order on one witness and init has run on an     *)
(* equal witness, the two witnesses are equal, and init panicked exactly  *)
(* if one of the init_row calls did.                                      *)
C13_InitIsRowsInOrder ==
    (WitnessModule /\ pc = "done") =>
      /\ wit.witness2 = wit.witness
      /\ wit.init_ok = wit.rows_ok

\* a layout of two rows, the second copying from the first, was
\* initialised both ways without a panic
C13_Witness ==
    /\ WitnessModule /\ pc = "done"
    /\ wit.init_ok /\ wit.rows_ok
    /\ Len(wit.layout) = 2 /\ wit.row = 2
    /\ wit.layout[2][1] = CopyCell(0, 1) /\ wit.offset = 0
    /\ wit.witness[0][1] = 2

\* the row the last init_row call initialised, when it returned
Returned == WitnessModule /\ wit.row > 0 /\ wit.rows_ok

(* C14: after init_row returned for a row, every cell c of that row and   *)
(* every index below the cell's length have witness[c + index][row +      *)
(* offset] equal to the cell's value for that index, and the witness is   *)
(* as before the call outside row + offset.  Stated for the constant and  *)
(* the named-variable cells, whose value does not depend on what the call *)
(* has written so far.                                                    *)
C14_RowInitialised ==
    Returned =>
      LET row == wit.row - 1
          cells == wit.layout[row + 1]
      IN /\ \A c \in 0..(Len(cells) - 1) : \A index \in 0..(CellLength(cells[c + 1]) - 1) :
              cells[c + 1].kind \in {"Constant", "Variable"} =>
                /\ InWitness(c + index, row + wit.offset)
                /\ wit.witness[c + index][row + wit.offset]
                     = CellValue(cells[c + 1], wit.witness, wit.variables, index).val
         /\ \A col \in 0..(N - 1) : \A r \in 0..(WitnessRows - 1) :
              r # row + wit.offset => wit.witness[col][r] = wit.before[col][r]

----------------------------------------------------------------------------
KeccakDriver == entry = "keccak"

\* the step about to run is an absorb of the given kinds
Absorbing(kinds) ==
    /\ KeccakDriver /\ pc = "step" /\ IsSome(env.self.keccak_step)
    /\ Unwrap(env.self.keccak_step).kind = "Absorb"
    /\ Unwrap(env.self.keccak_step).absorb \in kinds

AbsorbKinds == {"First", "Middle", "Last", "FirstAndLast"}

\* block number block_idx of the padded preimage, followed by the zero
\* bytes of the capacity
AbsorbedBlock ==
    SubSeq(env.self.padded, env.self.block_idx * RATE_IN_BYTES + 1,
           (env.self.block_idx + 1) * RATE_IN_BYTES)
      \o [i \in 1..CAPACITY_IN_BYTES |-> 0]

\* what hash sets up before its first step
HashResets ==
    (KeccakDriver /\ pc = "idle" /\ pc' = "step") =>
      /\ env'.self.step_counter = 0
      /\ env'.self.block_idx = 0
      /\ env'.self.prev_block = ZeroState
      /\ env'.self.keccak_step =
           Some(Absorb(IF Len(Pad(env.preimage)) = RATE_IN_BYTES
                       THEN "FirstAndLast" ELSE "First"))

\* what an absorb step writes and updates
AbsorbWrites ==
    Absorbing(AbsorbKinds) =>
      LET columns == env'.self.columns
          pad_len == env.self.pad_len
      IN /\ columns.FlagAbsorb = 1
         /\ columns.FlagRoot = (IF Absorbing({"First", "FirstAndLast"}) THEN 1 ELSE 0)
         /\ IF Absorbing({"Last", "FirstAndLast"})
            THEN /\ columns.FlagPad = 1
                 /\ columns.FlagLength = pad_len
                 /\ \A i \in 0..(RATE_IN_BYTES - 1) :
                      columns.FlagsBytes[i] = 1 <=> i >= RATE_IN_BYTES - pad_len
            ELSE /\ columns.FlagPad = 0
                 /\ columns.FlagLength = 0
                 /\ \A i \in 0..(RATE_IN_BYTES - 1) : columns.FlagsBytes[i] = 0
         /\ env'.self.block_idx = env.self.block_idx + 1
         /\ env'.self.prev_block
              = SumStates(env.self.prev_block, ExpandState(AbsorbedBlock))

(* C17: hash(preimage) sets step_counter and block_idx to 0 and prev_block*)
(* to the zero state, and makes the first step Absorb(FirstAndLast) if    *)
(* the padded preimage is one block long and Absorb(First) otherwise;     *)
(* every absorb step writes FlagAbsorb = 1, FlagRoot = 1 exactly for      *)
(* First and FirstAndLast, and FlagPad = 1, FlagLength = pad_len and      *)
(* FlagsBytes(i) = 1 for RATE_IN_BYTES - pad_len <= i < RATE_IN_BYTES     *)
(* exactly for Last and FirstAndLast; it adds 1 to block_idx and makes    *)
(* prev_block the element-wise sum of the old state and the expanded      *)
(* block.                                                                 *)
C17_HashAndAbsorb == [][HashResets /\ AbsorbWrites]_vars

\* the third block of a preimage has just been absorbed as the last one
C17_Witness ==
    /\ KeccakDriver /\ pc = "step"
    /\ env.self.block_idx = 3
    /\ env.self.keccak_step = Some(Round(0))
    /\ env.self.columns.FlagAbsorb = 1 /\ env.self.columns.FlagPad = 1
    /\ env.self.columns.FlagRoot = 0
    /\ env.self.columns.FlagLength = RATE_IN_BYTES
    /\ env.self.prev_block # ZeroState

====
